---- MODULE Spec2Model ----
(***************************************************************************)
(* The ServiceRegistry of src/src/auth/index.ts (lines 238-790): the       *)
(* catalog of service endpoints, the connection map, the health map, the   *)
(* per-service health timers and the discovery timer, together with the    *)
(* asynchronous calls that are suspended at an await (connectivity probes, *)
(* health probes, directory fetches).  JavaScript runs one synchronous     *)
(* segment at a time, so every action below is one such segment: a public  *)
(* call up to its first await, a timer callback up to its first await, or  *)
(* the resumption of a suspended call up to its next await or its return.  *)
(*                                                                         *)
(* Strings are sequences of symbols (naturals).  A Map is a sequence in    *)
(* insertion order, because JavaScript Maps iterate in insertion order.    *)
(***************************************************************************)
EXTENDS Integers, Sequences, FiniteSets, TLC

\* ------------------------------------------------------------------ bounds

\* nanoid(8) is called at most MaxServices times (registrations, by callers and by discovery).
MaxServices == 2
\* nanoid() is called at most MaxConns times (connections created).
MaxConns == 2
\* The network delivers at most MaxResponses answers (to connectivity probes, /health
\* fetches and directory fetches, together); the calls still suspended then stay so.
MaxResponses == 2
\* An interval tick starts a health probe only while fewer than MaxProbes are suspended.
MaxProbes == 2
\* At most MaxFetches directory fetches are suspended at the same time.
MaxFetches == 1
\* The system clock is followed for at most this many ticks.
MaxClock == 2

\* ----------------------------------------------------------------- strings

\* The '_' of `service.name + '_' + nanoid(8)`.
Underscore == 0

\* The service name callers and the directory use: "a".
NameA == <<1>>
Names == {NameA}

\* An id made of the name alone, without the generated part.
MkId_NoSuffix(name, suffix) == name \o <<Underscore>>

\* service.name + '_' + nanoid(8); the suffix stands for the 8 generated characters.
MkId(name, suffix) == name \o <<Underscore, suffix>>

\* Every id registerService can generate within the bounds.
AllIds == {MkId(n, k) : n \in Names, k \in 1..MaxServices}

\* The id a directory record carries: its own, unrelated to the ids generated here.
DirId == <<9>>

\* The strings callers pass where a service id is expected.
Strings == Names \cup AllIds \cup {DirId}

\* The connection ids callers pass (conn_<nanoid()>; the number stands for the generated part).
ConnIds == 1..MaxConns

\* The `undefined` a lookup returns.
Absent == [id |-> <<>>, name |-> <<>>]

\* The `undefined` of the optional port and path of a ServiceEndpoint.
NoPort == -1
NoPath == ""

\* The urls callers register: two that `new URL` parses and one it rejects.
UrlPlain == "https://api.example.com"
UrlFull == "http://h:8080/v1"
UrlBad == "not a url"
Urls == {UrlPlain, UrlFull, UrlBad}

\* new URL(url): whether it returns, and the protocol, hostname, port and pathname
\* of what it returns.
parseURL(url) ==
  CASE url = UrlPlain ->
         [ok |-> TRUE, protocol |-> "https:", hostname |-> "api.example.com",
          port |-> "", pathname |-> "/"]
    [] url = UrlFull ->
         [ok |-> TRUE, protocol |-> "http:", hostname |-> "h",
          port |-> "8080", pathname |-> "/v1"]
    [] OTHER ->
         [ok |-> FALSE, protocol |-> "", hostname |-> "", port |-> "", pathname |-> ""]

\* url.protocol.replace(':', ''), on the protocols parseURL yields.
StripColon(protocol) ==
  CASE protocol = "https:" -> "https"
    [] protocol = "http:" -> "http"
    [] OTHER -> protocol

\* parseInt(url.port), on the ports parseURL yields.
ParseInt(digits) == CASE digits = "8080" -> 8080 [] OTHER -> NoPort

\* The protocol, host, port and path a caller passes along with name and url: none,
\* or those of test-enhanced.js.
CallerFields ==
  { [protocol |-> "", host |-> "", port |-> NoPort, path |-> NoPath],
    [protocol |-> "https", host |-> "api.example.com", port |-> NoPort, path |-> NoPath] }

\* The argument of registerService: a ServiceEndpoint without its id.
Service(name, url, f) ==
  [name |-> name, url |-> url, protocol |-> f.protocol, host |-> f.host,
   port |-> f.port, path |-> f.path]

\* The registration of test-enhanced.js, under the name "a".
CoreService ==
  Service(NameA, UrlPlain,
          [protocol |-> "https", host |-> "api.example.com", port |-> NoPort,
           path |-> NoPath])

\* The registrations the lifecycle specification draws from.
CoreServices == {CoreService}

\* ------------------------------------------------------------------- state

VARIABLES
  config,             \* this.config: [enableAutoDiscovery, maxRetries]
  services,           \* this.services: sequence of [id, name], insertion order
  connections,        \* this.connections: its keys, a sequence of connection ids, insertion order
  connObj,            \* the ServiceConnection objects created so far, by connection id
  healthStatus,       \* this.healthStatus: function service id -> ServiceHealth
  healthCheckTimers,  \* this.healthCheckTimers: its keys
  discoveryTimer,     \* this.discoveryTimer # null
  connectCalls,       \* connectToService calls suspended in testConnection, by connection id
  healthProbes,       \* performHealthCheck calls suspended at an await, in start order
  discoverCalls,      \* number of discoverServices calls suspended in fetch
  nextSuffix,         \* the next value nanoid(8) yields
  nextConn,           \* the next value nanoid() yields
  responses,          \* the number of network answers delivered so far
  last,               \* the segment that ran last and what it returned or raised
  emitted,            \* the events that segment emitted, in order
  unregistered,       \* history: the ids for which service:unregistered was emitted
  sinceShutdown,      \* history: what callers did since the last shutdown()
  lastDiscovery,      \* history: the list of the last successful discovery cycle
  announced,          \* history: the ids for which service:registered was emitted
  now                 \* what new Date() yields, in ticks of the system clock

vars == <<config, services, connections, connObj, healthStatus, healthCheckTimers,
          discoveryTimer, connectCalls, healthProbes, discoverCalls, nextSuffix,
          nextConn, responses, last, emitted, unregistered, sinceShutdown,
          lastDiscovery, announced, now>>

\* ------------------------------------------------------------ Map helpers

Range(s) == {s[i] : i \in DOMAIN s}

\* Map.prototype.keys of this.services.
ServiceIds == {services[i].id : i \in DOMAIN services}

\* this.services.has(id), on a given map.
MapHas(svcs, id) == \E i \in DOMAIN svcs : svcs[i].id = id

\* this.services.get(id), on a given map.
MapGet(svcs, id) ==
  IF MapHas(svcs, id) THEN svcs[CHOOSE i \in DOMAIN svcs : svcs[i].id = id] ELSE Absent

\* this.services.set(entry.id, entry): an existing key keeps its place, a new one goes last.
MapSet_Only(svcs, entry) == <<entry>>

MapSet(svcs, entry) ==
  IF MapHas(svcs, entry.id)
  THEN [i \in DOMAIN svcs |-> IF svcs[i].id = entry.id THEN entry ELSE svcs[i]]
  ELSE Append(svcs, entry)

\* this.services.delete(id).
MapDelete(svcs, id) == SelectSeq(svcs, LAMBDA e : e.id # id)

\* A this.connections.set that adds an entry even for a key the Map has.
KeySet_Append(keys, k) == Append(keys, k)

\* this.connections.set(id, connection), on the key sequence.
KeySet(keys, k) == IF k \in Range(keys) THEN keys ELSE Append(keys, k)

\* A this.connections.delete that empties the Map.
KeyDelete_All(keys, k) == <<>>

\* this.connections.delete(id), on the key sequence.
KeyDelete(keys, k) == SelectSeq(keys, LAMBDA e : e # k)

\* A healthStatus Map with no entry.
NoHealth == [s \in {} |-> 0]

\* this.healthStatus.delete(id).
HealthDelete(h, id) == [s \in (DOMAIN h) \ {id} |-> h[s]]

\* this.healthStatus.set(id, health).
HealthSet(h, id, rec) == [s \in (DOMAIN h) \cup {id} |-> IF s = id THEN rec ELSE h[s]]

\* ------------------------------------------------------------------ events

Ev(kind, sid, cid, msg, list) ==
  [kind |-> kind, sid |-> sid, cid |-> cid, msg |-> msg, list |-> list]
EvService(kind, sid) == Ev(kind, sid, 0, "", <<>>)
\* A service:unhealthy that always carries the fixed reason.
EvUnhealthy_Generic(sid, msg) == Ev("service:unhealthy", sid, 0, "Health check failed", <<>>)

EvUnhealthy(sid, msg) == Ev("service:unhealthy", sid, 0, msg, <<>>)

EvConnection(kind, cid) == Ev(kind, <<>>, cid, "", <<>>)
\* A discovery:update that carries no list.
EvDiscovery_Empty(list) == Ev("discovery:update", <<>>, 0, "", <<>>)

EvDiscovery(list) == Ev("discovery:update", <<>>, 0, "", list)

\* What a segment reports: the operation, the service id it was called with (for
\* unregisterService and connectToService) or the id of the entry it returns (for
\* registerService), and its return value or error.
LastOn(op, arg, ret) == [op |-> op, arg |-> arg, ret |-> ret]
Last(op, ret) == LastOn(op, <<>>, ret)

\* -------------------------------------------------------- the environment

\* responseTime < 1000 ? 'healthy' : 'degraded'
DegradedThreshold == 1000

\* What a HEAD request to service.url can do: answer with a status after ms
\* milliseconds, fail in the network, or be aborted by the timeout's AbortController.
ProbeResponses ==
  { [kind |-> "2xx", ms |-> 5], [kind |-> "2xx", ms |-> DegradedThreshold],
    [kind |-> "405", ms |-> 5], [kind |-> "500", ms |-> 5],
    [kind |-> "network", ms |-> 5], [kind |-> "abort", ms |-> 5] }

\* The answers the lifecycle specification draws from: one success, one failure.
CoreProbeResponses == {[kind |-> "2xx", ms |-> 5], [kind |-> "abort", ms |-> 5]}

\* A check of a remote /health payload.
DbCheck == [name |-> "db", status |-> "fail", message |-> "db down"]

\* What GET <url>/health can yield: no usable answer (the fetch fails, times out,
\* answers non-OK or with an unparsable body), or a parsed body with an optional
\* status and optional checks.
HealthPayloads ==
  { [ok |-> FALSE, status |-> "", hasChecks |-> FALSE, checks |-> <<>>],
    [ok |-> TRUE, status |-> "", hasChecks |-> FALSE, checks |-> <<>>],
    [ok |-> TRUE, status |-> "unhealthy", hasChecks |-> TRUE, checks |-> <<DbCheck>>],
    [ok |-> TRUE, status |-> "unknown", hasChecks |-> FALSE, checks |-> <<>>] }

\* The /health answers the lifecycle specification draws from.
CoreHealthPayloads ==
  { [ok |-> FALSE, status |-> "", hasChecks |-> FALSE, checks |-> <<>>],
    [ok |-> TRUE, status |-> "unhealthy", hasChecks |-> TRUE, checks |-> <<DbCheck>>] }

\* What the /health fetch and the parse of its body can end in: the fetch fails in the
\* network, is aborted by its 5000 ms timeout, answers non-OK, answers OK with a body
\* that is not JSON, or answers OK with a JSON body.
HealthAnswers ==
  {[kind |-> k, body |-> [status |-> "", hasChecks |-> FALSE, checks |-> <<>>]] :
     k \in {"network", "timeout", "500", "unparsable"}}
  \cup {[kind |-> "json", body |-> [status |-> p.status, hasChecks |-> p.hasChecks,
                                    checks |-> p.checks]] :
          p \in {q \in HealthPayloads : q.ok}}

\* What performHealthCheck has in hand after the inner try block's fetch: healthData
\* when the answer was OK and parsed, nothing when the fetch or the parse threw or the
\* answer was not OK.
healthData(answer) ==
  [ok |-> answer.kind = "json", status |-> answer.body.status,
   hasChecks |-> answer.body.hasChecks, checks |-> answer.body.checks]

\* What GET <discoveryEndpoint>/discover can yield: a failure or non-OK answer, or a
\* list of ServiceEndpoint-shaped records, each with its own id.
DirRecord(id) ==
  [id |-> id, name |-> NameA, url |-> UrlPlain, protocol |-> "https",
   host |-> "api.example.com", port |-> NoPort, path |-> NoPath]
DirectoryLists == {<<>>, <<DirRecord(DirId)>>, <<DirRecord(NameA)>>}
DiscoveryResponses ==
  {[ok |-> FALSE, list |-> <<>>]} \cup {[ok |-> TRUE, list |-> l] : l \in DirectoryLists}

\* ------------------------------------------------------------- pure parts

\* A getService that tries the names before the ids.
getServiceIn_NameFirst(svcs, idOrName) ==
  IF \E i \in DOMAIN svcs : svcs[i].name = idOrName
  THEN svcs[CHOOSE i \in DOMAIN svcs :
              /\ svcs[i].name = idOrName
              /\ \A j \in DOMAIN svcs : svcs[j].name = idOrName => i <= j]
  ELSE MapGet(svcs, idOrName)

\* A getService whose name search keeps the last match.
getServiceIn_LastName(svcs, idOrName) ==
  IF MapHas(svcs, idOrName) THEN MapGet(svcs, idOrName)
  ELSE IF \E i \in DOMAIN svcs : svcs[i].name = idOrName
       THEN svcs[CHOOSE i \in DOMAIN svcs :
                   /\ svcs[i].name = idOrName
                   /\ \A j \in DOMAIN svcs : svcs[j].name = idOrName => j <= i]
       ELSE Absent

\* getService(idOrName): by id first, else the first entry, in insertion order, of that name.
getServiceIn(svcs, idOrName) ==
  IF MapHas(svcs, idOrName) THEN MapGet(svcs, idOrName)
  ELSE IF \E i \in DOMAIN svcs : svcs[i].name = idOrName
       THEN svcs[CHOOSE i \in DOMAIN svcs :
                   /\ svcs[i].name = idOrName
                   /\ \A j \in DOMAIN svcs : svcs[j].name = idOrName => i <= j]
       ELSE Absent

\* getService(idOrName) on this.services.
getService(idOrName) == getServiceIn(services, idOrName)

\* A testConnection that rethrows the abort as it caught it.
testConnection_RethrowsAbort(resp) ==
  CASE resp.kind = "2xx" -> ""
    [] resp.kind = "405" -> ""
    [] resp.kind = "abort" -> "fetch failed"
    [] resp.kind = "network" -> "fetch failed"
    [] OTHER -> "Service returned " \o resp.kind

\* testConnection: "" when it returns, the error's message when it throws.
testConnection(resp) ==
  CASE resp.kind = "2xx" -> ""
    [] resp.kind = "405" -> ""
    [] resp.kind = "abort" -> "Connection timeout"
    [] resp.kind = "network" -> "fetch failed"
    [] OTHER -> "Service returned " \o resp.kind

\* A connectToService that looks its service up as getService does, by id or by name.
connectLookup_ByName(serviceId) == getService(serviceId)

\* The lookup connectToService makes before it creates anything.
connectLookup(serviceId) == MapGet(services, serviceId)

\* An unregisterService that looks its service up as getService does, by id or by name.
unregisterLookup_ByName(serviceId) == getService(serviceId)

\* The lookup unregisterService makes before it changes anything.
unregisterLookup(serviceId) == MapGet(services, serviceId)

\* The ServiceHealth object performHealthCheck creates before its first await.
NewHealth == [status |-> "unknown", checks |-> <<>>, rt |-> -1, lastCheckAt |-> now]

\* A startHealthCheck that only sets the interval timer.
StartProbe_Never(svcs, probes, serviceId) == probes

\* performHealthCheck up to its first await: nothing for an unknown id, else a
\* probe suspended in testConnection.
StartProbe(svcs, probes, serviceId) ==
  IF MapHas(svcs, serviceId)
  THEN Append(probes, [sid |-> serviceId, stage |-> "conn", health |-> NewHealth])
  ELSE probes

\* A registerService that spreads the argument over the generated id, so that an
\* argument with an id of its own keeps it.
registeredService_KeepsGivenId(service, suffix) ==
  LET url == parseURL(service.url)
      id == IF "id" \in DOMAIN service THEN service.id ELSE MkId(service.name, suffix)
  IN IF url.ok
     THEN [id |-> id, name |-> service.name, url |-> service.url,
           protocol |-> StripColon(url.protocol),
           host |-> url.hostname,
           port |-> IF url.port # "" THEN ParseInt(url.port) ELSE NoPort,
           path |-> IF url.pathname # "/" THEN url.pathname ELSE NoPath]
     ELSE [id |-> id, name |-> service.name, url |-> service.url,
           protocol |-> service.protocol, host |-> service.host,
           port |-> service.port, path |-> service.path]

\* The entry registerService builds: the argument's fields under a generated id, the
\* four derived fields overwritten when the url parses and left alone when it does not.
registeredService(service, suffix) ==
  LET url == parseURL(service.url)
      id == MkId(service.name, suffix)
  IN IF url.ok
     THEN [id |-> id, name |-> service.name, url |-> service.url,
           protocol |-> StripColon(url.protocol),
           host |-> url.hostname,
           port |-> IF url.port # "" THEN ParseInt(url.port) ELSE NoPort,
           path |-> IF url.pathname # "/" THEN url.pathname ELSE NoPath]
     ELSE [id |-> id, name |-> service.name, url |-> service.url,
           protocol |-> service.protocol, host |-> service.host,
           port |-> service.port, path |-> service.path]

\* A registerService whose startHealthCheck runs the first probe and sets no timer.
registerInto_NoTimer(st, service) ==
  LET entry == registeredService(service, st.suffix)
      svcs == MapSet(st.services, entry)
  IN [services |-> svcs,
      timers |-> st.timers,
      probes |-> StartProbe(svcs, st.probes, entry.id),
      suffix |-> st.suffix + 1,
      emitted |-> Append(st.emitted, EvService("service:registered", entry.id)),
      entry |-> entry]

\* registerService on the part of the state it touches: st = [services, timers,
\* probes, suffix, emitted, entry]; entry is what the call returns.  startHealthCheck runs the first probe up to its await
\* and sets the interval timer.
registerInto(st, service) ==
  LET entry == registeredService(service, st.suffix)
      svcs == MapSet(st.services, entry)
  IN [services |-> svcs,
      timers |-> st.timers \cup {entry.id},
      probes |-> StartProbe(svcs, st.probes, entry.id),
      suffix |-> st.suffix + 1,
      emitted |-> Append(st.emitted, EvService("service:registered", entry.id)),
      entry |-> entry]

\* The state registerInto works on, taken from the variables.
RegState ==
  [services |-> services, timers |-> healthCheckTimers, probes |-> healthProbes,
   suffix |-> nextSuffix, emitted |-> <<>>, entry |-> Absent]

\* The loop of discoverServices over the fetched list: an entry is registered
\* unless getService(entry.id) finds something.
RECURSIVE discoverLoop(_, _)
discoverLoop(st, list) ==
  IF list = <<>> THEN st
  ELSE discoverLoop(
         IF getServiceIn(st.services, Head(list).id) = Absent
         THEN registerInto(st, Head(list))
         ELSE st,
         Tail(list))

\* A loop over this.connections that ends at the first entry it deletes.
ConnsOf_FirstOnly(serviceId) ==
  LET all == SelectSeq(connections, LAMBDA c : connObj[c].serviceId = serviceId)
  IN IF all = <<>> THEN all ELSE <<Head(all)>>

\* The loop of unregisterService over this.connections, in Map order: the ids of the
\* connections it hands to disconnectConnection.
ConnsOf(serviceId) ==
  SelectSeq(connections, LAMBDA c : connObj[c].serviceId = serviceId)

\* ------------------------------------------------------------------- Init

\* config.maxRetries || 3
DefaultMaxRetries == 3

\* The config the constructor builds from what the caller passes for
\* enableAutoDiscovery and maxRetries (0 for a maxRetries that is 0 or not given).
Config(enableAutoDiscovery, maxRetries) ==
  [enableAutoDiscovery |-> enableAutoDiscovery,
   maxRetries |-> IF maxRetries = 0 THEN DefaultMaxRetries ELSE maxRetries]

\* A constructor that starts auto-discovery whatever the configuration says.
Constructed_AlwaysDiscovers(cfg) ==
  /\ config = cfg
  /\ services = <<>>
  /\ connections = <<>>
  /\ connObj = <<>>
  /\ healthStatus = NoHealth
  /\ healthCheckTimers = {}
  /\ discoveryTimer = TRUE
  /\ connectCalls = {}
  /\ healthProbes = <<>>
  /\ discoverCalls = 1
  /\ nextSuffix = 1
  /\ nextConn = 1
  /\ responses = 0
  /\ last = Last("constructor", "void")
  /\ emitted = <<>>
  /\ unregistered = {}
  /\ sinceShutdown = "live"
  /\ lastDiscovery = [valid |-> FALSE, list |-> <<>>]
  /\ announced = {}
  /\ now = 0

\* The constructor: with enableAutoDiscovery, startAutoDiscovery runs discoverServices
\* up to its fetch and sets the interval timer.
Constructed(cfg) ==
  /\ config = cfg
  /\ services = <<>>
  /\ connections = <<>>
  /\ connObj = <<>>
  /\ healthStatus = NoHealth
  /\ healthCheckTimers = {}
  /\ discoveryTimer = config.enableAutoDiscovery
  /\ connectCalls = {}
  /\ healthProbes = <<>>
  /\ discoverCalls = IF config.enableAutoDiscovery THEN 1 ELSE 0
  /\ nextSuffix = 1
  /\ nextConn = 1
  /\ responses = 0
  /\ last = Last("constructor", "void")
  /\ emitted = <<>>
  /\ unregistered = {}
  /\ sinceShutdown = "live"
  /\ lastDiscovery = [valid |-> FALSE, list |-> <<>>]
  /\ announced = {}
  /\ now = 0

\* new ServiceRegistry(config), with auto-discovery on or off and the default maxRetries.
Init == \E b \in BOOLEAN : Constructed(Config(b, 0))

\* ------------------------------------------------------- public operations

\* registerService(service), called by a caller.
registerService(service) ==
  LET st == registerInto(RegState, service) IN
  /\ nextSuffix <= MaxServices
  /\ UNCHANGED responses
  /\ announced' = announced \cup {st.entry.id}
  /\ services' = st.services
  /\ healthCheckTimers' = st.timers
  /\ healthProbes' = st.probes
  /\ nextSuffix' = st.suffix
  /\ emitted' = st.emitted
  /\ last' = LastOn("registerService", st.entry.id, "entry")
  /\ sinceShutdown' = "live"
  /\ UNCHANGED <<now, config, connections, connObj, healthStatus, discoveryTimer,
                 connectCalls, discoverCalls, nextConn, unregistered, lastDiscovery>>

\* unregisterService(serviceId).
unregisterService(serviceId) ==
  /\ UNCHANGED <<responses, announced>>
  /\ IF unregisterLookup(serviceId) = Absent
     THEN /\ last' = LastOn("unregisterService", serviceId, "false")
          /\ emitted' = <<>>
          /\ UNCHANGED <<now, config, services, connections, connObj, healthStatus,
                         healthCheckTimers, discoveryTimer, connectCalls, healthProbes,
                         discoverCalls, nextSuffix, nextConn, unregistered, sinceShutdown,
                         lastDiscovery>>
     ELSE LET gone == ConnsOf(serviceId) IN
          /\ healthCheckTimers' = healthCheckTimers \ {serviceId}
          /\ connObj' = [c \in DOMAIN connObj |->
                           IF c \in Range(gone)
                           THEN [connObj[c] EXCEPT !.status = "disconnected"]
                           ELSE connObj[c]]
          /\ connections' = SelectSeq(connections, LAMBDA c : c \notin Range(gone))
          /\ services' = MapDelete(services, serviceId)
          /\ healthStatus' = HealthDelete(healthStatus, serviceId)
          /\ emitted' = [i \in DOMAIN gone |-> EvConnection("connection:lost", gone[i])]
                          \o <<EvService("service:unregistered", serviceId)>>
          /\ last' = LastOn("unregisterService", serviceId, "true")
          /\ unregistered' = unregistered \cup {serviceId}
          /\ lastDiscovery' = [valid |-> FALSE, list |-> <<>>]
          /\ UNCHANGED <<now, config, discoveryTimer, connectCalls, healthProbes,
                         discoverCalls, nextSuffix, nextConn, sinceShutdown>>

\* connectToService(serviceId, chittyId) up to its await: it throws for an unknown
\* id, else it stores a connecting connection and suspends in testConnection.
connectToService(serviceId) ==
  /\ UNCHANGED <<responses, announced>>
  /\ sinceShutdown' = IF sinceShutdown = "quiet" THEN "connectOnly" ELSE sinceShutdown
  /\ IF connectLookup(serviceId) = Absent
     THEN /\ last' = LastOn("connectToService", serviceId, "NotFound")
          /\ emitted' = <<>>
          /\ UNCHANGED <<now, config, services, connections, connObj, healthStatus,
                         healthCheckTimers, discoveryTimer, connectCalls, healthProbes,
                         discoverCalls, nextSuffix, nextConn, unregistered,
                         lastDiscovery>>
     ELSE /\ nextConn <= MaxConns
          /\ connObj' = Append(connObj,
                          [serviceId |-> serviceId, status |-> "connecting",
                           established |-> FALSE, latency |-> -1, error |-> ""])
          /\ connections' = KeySet(connections, nextConn)
          /\ connectCalls' = connectCalls \cup {nextConn}
          /\ nextConn' = nextConn + 1
          /\ last' = LastOn("connectToService", serviceId, "pending")
          /\ emitted' = <<>>
          /\ UNCHANGED <<now, config, services, healthStatus, healthCheckTimers,
                         discoveryTimer, healthProbes, discoverCalls, nextSuffix,
                         unregistered, lastDiscovery>>

\* connectToService after its await: testConnection returned or threw.
connectResume(c, resp) ==
  /\ UNCHANGED announced
  /\ c \in connectCalls
  /\ connectCalls' = connectCalls \ {c}
  /\ IF testConnection(resp) = ""
     THEN /\ connObj' = [connObj EXCEPT ![c].status = "connected",
                                        ![c].established = TRUE,
                                        ![c].latency = resp.ms]
          /\ emitted' = <<EvConnection("connection:established", c)>>
          /\ last' = Last("connectToService:resume", "connection")
     ELSE /\ connObj' = [connObj EXCEPT ![c].status = "error",
                                        ![c].error = testConnection(resp)]
          /\ emitted' = <<>>
          /\ last' = Last("connectToService:resume", testConnection(resp))
  /\ connections' = KeySet(connections, c)
  /\ UNCHANGED <<now, config, services, healthStatus, healthCheckTimers, discoveryTimer,
                 healthProbes, discoverCalls, nextSuffix, nextConn, unregistered,
                 sinceShutdown, lastDiscovery>>

\* disconnectConnection(connectionId).
disconnectConnection(c) ==
  /\ UNCHANGED <<responses, announced>>
  /\ IF c \notin Range(connections)
     THEN /\ last' = Last("disconnectConnection", "false")
          /\ emitted' = <<>>
          /\ UNCHANGED <<now, config, services, connections, connObj, healthStatus,
                         healthCheckTimers, discoveryTimer, connectCalls, healthProbes,
                         discoverCalls, nextSuffix, nextConn, unregistered, sinceShutdown,
                         lastDiscovery>>
     ELSE /\ connObj' = [connObj EXCEPT ![c].status = "disconnected"]
          /\ emitted' = <<EvConnection("connection:lost", c)>>
          /\ connections' = KeyDelete(connections, c)
          /\ last' = Last("disconnectConnection", "true")
          /\ UNCHANGED <<now, config, services, healthStatus, healthCheckTimers,
                         discoveryTimer, connectCalls, healthProbes, discoverCalls,
                         nextSuffix, nextConn, unregistered, sinceShutdown, lastDiscovery>>

\* A stopAutoDiscovery that leaves the interval timer set.
stopAutoDiscovery_KeepsTimer ==
  /\ UNCHANGED <<responses, announced>>
  /\ discoveryTimer' = discoveryTimer
  /\ last' = Last("stopAutoDiscovery", "void")
  /\ emitted' = <<>>
  /\ UNCHANGED <<now, config, services, connections, connObj, healthStatus,
                 healthCheckTimers, connectCalls, healthProbes, discoverCalls,
                 nextSuffix, nextConn, unregistered, sinceShutdown, lastDiscovery>>

\* stopAutoDiscovery().
stopAutoDiscovery ==
  /\ UNCHANGED <<responses, announced>>
  /\ discoveryTimer' = FALSE
  /\ last' = Last("stopAutoDiscovery", "void")
  /\ emitted' = <<>>
  /\ UNCHANGED <<now, config, services, connections, connObj, healthStatus,
                 healthCheckTimers, connectCalls, healthProbes, discoverCalls,
                 nextSuffix, nextConn, unregistered, sinceShutdown, lastDiscovery>>

\* A shutdown that unregisters the services one by one, with their events.
shutdown_Announces ==
  /\ UNCHANGED <<responses, announced>>
  /\ healthCheckTimers' = {}
  /\ discoveryTimer' = FALSE
  /\ services' = <<>>
  /\ connections' = <<>>
  /\ healthStatus' = NoHealth
  /\ last' = Last("shutdown", "void")
  /\ emitted' = [i \in DOMAIN services |-> EvService("service:unregistered", services[i].id)]
  /\ sinceShutdown' = "quiet"
  /\ lastDiscovery' = [valid |-> FALSE, list |-> <<>>]
  /\ UNCHANGED <<now, config, connObj, connectCalls, healthProbes, discoverCalls,
                 nextSuffix, nextConn, unregistered>>

\* shutdown(): every health timer stopped, the discovery timer stopped, the three
\* maps cleared.  The connection objects are not touched and nothing is emitted.
shutdown ==
  /\ UNCHANGED <<responses, announced>>
  /\ healthCheckTimers' = {}
  /\ discoveryTimer' = FALSE
  /\ services' = <<>>
  /\ connections' = <<>>
  /\ healthStatus' = NoHealth
  /\ last' = Last("shutdown", "void")
  /\ emitted' = <<>>
  /\ sinceShutdown' = "quiet"
  /\ lastDiscovery' = [valid |-> FALSE, list |-> <<>>]
  /\ UNCHANGED <<now, config, connObj, connectCalls, healthProbes, discoverCalls,
                 nextSuffix, nextConn, unregistered>>

\* getService(idOrName), called by a caller: it changes nothing and returns the entry
\* or undefined.
getServiceCall(idOrName) ==
  /\ last' = LastOn("getService", idOrName, getService(idOrName))
  /\ emitted' = <<>>
  /\ UNCHANGED <<now, config, services, connections, connObj, healthStatus,
                 healthCheckTimers, discoveryTimer, connectCalls, healthProbes,
                 discoverCalls, nextSuffix, nextConn, responses, unregistered,
                 sinceShutdown, lastDiscovery, announced>>

\* ------------------------------------------------ timers and resumptions

\* The setInterval callback of startHealthCheck: performHealthCheck up to its await.
healthTick(serviceId) ==
  /\ UNCHANGED <<responses, announced>>
  /\ serviceId \in healthCheckTimers
  /\ Len(healthProbes) < MaxProbes
  /\ healthProbes' = StartProbe(services, healthProbes, serviceId)
  /\ last' = Last("healthTick", "void")
  /\ emitted' = <<>>
  /\ UNCHANGED <<now, config, services, connections, connObj, healthStatus,
                 healthCheckTimers, discoveryTimer, connectCalls, discoverCalls,
                 nextSuffix, nextConn, unregistered, sinceShutdown, lastDiscovery>>

\* A probe that is kept, to be answered again, when it is answered.
RemoveAt_Keep(s, i) == s

\* The system clock advances between two segments.
clockAdvance ==
  /\ now < MaxClock
  /\ now' = now + 1
  /\ UNCHANGED <<config, services, connections, connObj, healthStatus,
                 healthCheckTimers, discoveryTimer, connectCalls, healthProbes,
                 discoverCalls, nextSuffix, nextConn, responses, last, emitted,
                 unregistered, sinceShutdown, lastDiscovery, announced>>

\* The sequence without its i-th element.
RemoveAt(s, i) == SubSeq(s, 1, i - 1) \o SubSeq(s, i + 1, Len(s))

\* The health object after a connectivity check that returned after ms milliseconds.
BasicHealth(h, ms) ==
  [h EXCEPT !.rt = ms,
            !.status = IF ms < DegradedThreshold THEN "healthy" ELSE "degraded",
            !.checks = Append(h.checks,
                         [name |-> "connectivity", status |-> "pass",
                          message |-> "Response time: " \o ToString(ms) \o "ms"])]

\* A catch block that records the failed check and leaves the status as it was.
FailedHealth_Unknown(h, message) ==
  [h EXCEPT !.checks = Append(h.checks,
                         [name |-> "connectivity", status |-> "fail",
                          message |-> message])]

\* The health object after a connectivity check that threw.
FailedHealth(h, message) ==
  [h EXCEPT !.status = "unhealthy",
            !.checks = Append(h.checks,
                         [name |-> "connectivity", status |-> "fail",
                          message |-> message])]

\* A merge that takes a /health fetch without usable answer for an unhealthy service.
MergedHealth_FailUnhealthy(h, payload) ==
  IF ~payload.ok THEN [h EXCEPT !.status = "unhealthy"]
  ELSE [h EXCEPT !.status = IF payload.status # "" THEN payload.status ELSE h.status,
                 !.checks = IF payload.hasChecks THEN h.checks \o payload.checks
                            ELSE h.checks]

\* The health object after the /health answer: a parsed body's status, when it has
\* one, replaces the status, and its checks, when it has any, are pushed.
MergedHealth(h, payload) ==
  IF ~payload.ok THEN h
  ELSE [h EXCEPT !.status = IF payload.status # "" THEN payload.status ELSE h.status,
                 !.checks = IF payload.hasChecks THEN h.checks \o payload.checks
                            ELSE h.checks]

\* A success path that reports a degraded service as unhealthy.
HealthEvents_DegradedToo(serviceId, h) ==
  IF h.status = "healthy" THEN <<EvService("service:healthy", serviceId)>>
  ELSE IF h.status \in {"unhealthy", "degraded"}
       THEN <<EvUnhealthy(serviceId, "Health check failed")>>
       ELSE <<>>

\* The events performHealthCheck emits after storing a health object on its success path.
HealthEvents(serviceId, h) ==
  IF h.status = "healthy" THEN <<EvService("service:healthy", serviceId)>>
  ELSE IF h.status = "unhealthy"
       THEN <<EvUnhealthy(serviceId, "Health check failed")>>
       ELSE <<>>

\* What the resumption of a health probe for serviceId stores in healthStatus.
StoreHealth(serviceId, h) == HealthSet(healthStatus, serviceId, h)

\* performHealthCheck after testConnection: on success it records the basic result
\* and suspends in the /health fetch; on an error it stores unhealthy and emits.
healthResumeConn(i, resp) ==
  /\ UNCHANGED announced
  /\ i \in DOMAIN healthProbes
  /\ healthProbes[i].stage = "conn"
  /\ LET p == healthProbes[i] IN
     IF testConnection(resp) = ""
     THEN /\ healthProbes' = [healthProbes EXCEPT ![i].stage = "health",
                                                  ![i].health = BasicHealth(p.health, resp.ms)]
          /\ emitted' = <<>>
          /\ last' = Last("performHealthCheck:connected", "pending")
          /\ UNCHANGED healthStatus
     ELSE /\ healthProbes' = RemoveAt(healthProbes, i)
          /\ healthStatus' = StoreHealth(p.sid, FailedHealth(p.health, testConnection(resp)))
          /\ emitted' = <<EvUnhealthy(p.sid, testConnection(resp))>>
          /\ last' = Last("performHealthCheck:failed", "void")
  /\ UNCHANGED <<now, config, services, connections, connObj, healthCheckTimers,
                 discoveryTimer, connectCalls, discoverCalls, nextSuffix, nextConn,
                 unregistered, sinceShutdown, lastDiscovery>>

\* performHealthCheck after the /health fetch (and the parse of its body, which
\* touches nothing shared): it merges, stores and emits.
healthResumeFetch(i, payload) ==
  /\ UNCHANGED announced
  /\ i \in DOMAIN healthProbes
  /\ healthProbes[i].stage = "health"
  /\ LET p == healthProbes[i]
         h == MergedHealth(p.health, payload)
     IN /\ healthProbes' = RemoveAt(healthProbes, i)
        /\ healthStatus' = StoreHealth(p.sid, h)
        /\ emitted' = HealthEvents(p.sid, h)
        /\ last' = Last("performHealthCheck:done", "void")
  /\ UNCHANGED <<now, config, services, connections, connObj, healthCheckTimers,
                 discoveryTimer, connectCalls, discoverCalls, nextSuffix, nextConn,
                 unregistered, sinceShutdown, lastDiscovery>>

\* The message of the error a listener throws.
ListenerMessage == "listener failed"

\* performHealthCheck after the /health fetch when a listener of the event of its
\* success path throws: the record is stored, emit passes the listener's error on,
\* and the catch block of the outer try, in which that emit stands, sets the stored
\* object to unhealthy, pushes a failed connectivity check with the error's message
\* and emits service:unhealthy with it.
healthResumeFetchListenerThrows(i, payload) ==
  /\ UNCHANGED announced
  /\ i \in DOMAIN healthProbes
  /\ healthProbes[i].stage = "health"
  /\ LET p == healthProbes[i]
         h == MergedHealth(p.health, payload)
     IN /\ HealthEvents(p.sid, h) # <<>>
        /\ healthProbes' = RemoveAt(healthProbes, i)
        /\ healthStatus' = StoreHealth(p.sid, FailedHealth(h, ListenerMessage))
        /\ emitted' = HealthEvents(p.sid, h) \o <<EvUnhealthy(p.sid, ListenerMessage)>>
        /\ last' = Last("performHealthCheck:caught", "void")
  /\ UNCHANGED <<now, config, services, connections, connObj, healthCheckTimers,
                 discoveryTimer, connectCalls, discoverCalls, nextSuffix, nextConn,
                 unregistered, sinceShutdown, lastDiscovery>>

\* The setInterval callback of startAutoDiscovery: discoverServices up to its fetch.
discoveryTick ==
  /\ UNCHANGED <<responses, announced>>
  /\ discoveryTimer
  /\ discoverCalls < MaxFetches
  /\ discoverCalls' = discoverCalls + 1
  /\ last' = Last("discoveryTick", "void")
  /\ emitted' = <<>>
  /\ UNCHANGED <<now, config, services, connections, connObj, healthStatus,
                 healthCheckTimers, discoveryTimer, connectCalls, healthProbes,
                 nextSuffix, nextConn, unregistered, sinceShutdown, lastDiscovery>>

\* discoverServices after its fetch (and the parse of the body): a failure or a
\* non-OK answer changes nothing; a list is looped over and discovery:update emitted.
discoverResume(resp) ==
  /\ discoverCalls > 0
  /\ discoverCalls' = discoverCalls - 1
  /\ IF ~resp.ok
     THEN /\ emitted' = <<>>
          /\ last' = Last("discoverServices:failed", "void")
          /\ UNCHANGED <<services, healthCheckTimers, healthProbes, nextSuffix,
                         lastDiscovery, announced>>
     ELSE LET st == discoverLoop(RegState, resp.list) IN
          /\ st.suffix <= MaxServices + 1
          /\ announced' = announced \cup
                            {e.sid : e \in {x \in Range(st.emitted) :
                                              x.kind = "service:registered"}}
          /\ services' = st.services
          /\ healthCheckTimers' = st.timers
          /\ healthProbes' = st.probes
          /\ nextSuffix' = st.suffix
          /\ emitted' = Append(st.emitted, EvDiscovery(resp.list))
          /\ last' = Last("discoverServices:done", "void")
          /\ lastDiscovery' = [valid |-> TRUE, list |-> resp.list]
  /\ UNCHANGED <<now, config, connections, connObj, healthStatus, discoveryTimer,
                 connectCalls, nextConn, unregistered, sinceShutdown>>

\* ------------------------------------------------------------ specification

\* The network delivers one more answer, within the lifecycle specification's budget.
Answered == responses < MaxResponses /\ responses' = responses + 1

\* The lifecycle specification: every operation, timer and resumption, with the
\* answers drawn from the Core sets.
Next ==
  \/ \E service \in CoreServices : registerService(service)
  \/ \E s \in Strings : unregisterService(s)
  \/ \E s \in Strings : connectToService(s)
  \/ \E c \in ConnIds, resp \in CoreProbeResponses : Answered /\ connectResume(c, resp)
  \/ \E c \in ConnIds : disconnectConnection(c)
  \/ stopAutoDiscovery
  \/ shutdown
  \/ \E s \in AllIds : healthTick(s)
  \/ \E i \in 1..MaxProbes, resp \in CoreProbeResponses :
       Answered /\ healthResumeConn(i, resp)
  \/ \E i \in 1..MaxProbes, payload \in CoreHealthPayloads :
       Answered /\ healthResumeFetch(i, payload)
  \/ discoveryTick
  \/ \E resp \in DiscoveryResponses : Answered /\ discoverResume(resp)

Spec == Init /\ [][Next]_vars

\* new ServiceRegistry({enableAutoDiscovery: false}).
InitNoDiscovery == Init /\ ~config.enableAutoDiscovery

\* The names the catalog specification registers: "a", and "a_1" and "a_2", which are
\* also the ids a first and a second registration of "a" get.
CatalogNames == {NameA, MkId(NameA, 1), MkId(NameA, 2)}

\* The registrations the catalog specification draws from.
CatalogServices ==
  {Service(n, u, f) : n \in CatalogNames, u \in Urls, f \in CallerFields}

\* The strings its callers pass to getService and unregisterService.
CatalogStrings ==
  CatalogNames \cup {MkId(n, k) : n \in CatalogNames, k \in 1..MaxServices}

\* The catalog specification: registrations of every shape, removals and lookups, on
\* a registry without discovery and while no probe is answered.
CatalogNext ==
  \/ \E service \in CatalogServices : registerService(service)
  \/ \E s \in CatalogStrings : unregisterService(s)
  \/ \E x \in CatalogStrings : getServiceCall(x)

CatalogSpec == InitNoDiscovery /\ [][CatalogNext]_vars

\* The connection specification: connections made, answered in every way
\* testConnection distinguishes, and closed, on a registry without discovery and
\* while no health probe is answered.
ConnectNext ==
  \/ \E service \in CoreServices : registerService(service)
  \/ \E s \in Strings : unregisterService(s)
  \/ \E s \in Strings : connectToService(s)
  \/ \E c \in ConnIds, resp \in ProbeResponses :
       UNCHANGED responses /\ connectResume(c, resp)
  \/ \E c \in ConnIds : disconnectConnection(c)
  \/ shutdown

ConnectSpec == InitNoDiscovery /\ [][ConnectNext]_vars

\* A suspended health probe is answered: testConnection and the /health fetch both
\* end, by an answer, a failure or their timeout.
ProbeCompletes ==
  /\ UNCHANGED responses
  /\ \/ \E i \in DOMAIN healthProbes, resp \in ProbeResponses : healthResumeConn(i, resp)
     \/ \E i \in DOMAIN healthProbes, payload \in HealthPayloads :
          healthResumeFetch(i, payload)

\* The first-interval specification: the registry before any health interval has
\* elapsed, so that the only probes are those startHealthCheck dispatches at
\* registration; they are answered in every way, and every one is answered.
FirstProbeNext ==
  \/ \E service \in CoreServices : registerService(service)
  \/ \E s \in AllIds : unregisterService(s)
  \/ shutdown
  \/ ProbeCompletes

FirstProbeSpec ==
  InitNoDiscovery /\ [][FirstProbeNext]_vars /\ WF_vars(ProbeCompletes)

\* The maxRetries values the probing specification's callers configure: not given,
\* and one.
RetryConfigs == {0, 1}

\* new ServiceRegistry({enableAutoDiscovery: false, maxRetries}).
InitProbing == \E r \in RetryConfigs : Constructed(Config(FALSE, r))

\* The probing specification: health probes dispatched at registration and by the
\* interval timers, answered in every way testConnection and the /health fetch
\* distinguish, on a registry without discovery.
ProbingNext ==
  \/ \E service \in CoreServices : registerService(service)
  \/ \E s \in AllIds : unregisterService(s)
  \/ \E s \in AllIds : healthTick(s)
  \/ \E i \in 1..MaxProbes, resp \in ProbeResponses :
       UNCHANGED responses /\ healthResumeConn(i, resp)
  \/ \E i \in 1..MaxProbes, answer \in HealthAnswers :
       UNCHANGED responses /\ healthResumeFetch(i, healthData(answer))
  \/ shutdown

ProbingSpec == InitProbing /\ [][ProbingNext]_vars

\* The lists the discovery specification's directory answers with: those of the
\* lifecycle specification, and two of two records.
DiscoveryLists ==
  DirectoryLists \cup {<<DirRecord(DirId), DirRecord(NameA)>>,
                       <<DirRecord(DirId), DirRecord(DirId)>>}

\* The answers of the directory in the discovery specification.
DiscoveryAnswers ==
  {[ok |-> FALSE, list |-> <<>>]} \cup {[ok |-> TRUE, list |-> l] : l \in DiscoveryLists}

\* The discovery specification: discovery cycles on a registry that has catalog
\* entries, connections (none of them answered yet) and health records, and whose
\* schedule can be stopped.
DiscoveryNext ==
  \/ \E service \in CoreServices : registerService(service)
  \/ \E s \in AllIds : unregisterService(s)
  \/ \E s \in AllIds : connectToService(s)
  \/ stopAutoDiscovery
  \/ shutdown
  \/ \E i \in 1..MaxProbes, resp \in CoreProbeResponses :
       UNCHANGED responses /\ healthResumeConn(i, resp)
  \/ \E i \in 1..MaxProbes, payload \in CoreHealthPayloads :
       UNCHANGED responses /\ healthResumeFetch(i, payload)
  \/ discoveryTick
  \/ \E resp \in DiscoveryAnswers : UNCHANGED responses /\ discoverResume(resp)

DiscoverySpec == Init /\ [][DiscoveryNext]_vars

\* The overlap specification: the clock advances, interval ticks start probes while
\* earlier probes of the same service are still suspended, and the probes are
\* answered in any order.
OverlapNext ==
  \/ \E service \in CoreServices : registerService(service)
  \/ clockAdvance
  \/ \E s \in AllIds : healthTick(s)
  \/ \E i \in 1..MaxProbes, resp \in CoreProbeResponses :
       UNCHANGED responses /\ healthResumeConn(i, resp)
  \/ \E i \in 1..MaxProbes, payload \in CoreHealthPayloads :
       UNCHANGED responses /\ healthResumeFetch(i, payload)

OverlapSpec == InitNoDiscovery /\ [][OverlapNext]_vars

\* The listener specification: probes dispatched at registration and answered in
\* every way, with listeners of service:healthy and service:unhealthy that return or
\* throw.
ListenerNext ==
  \/ \E service \in CoreServices : registerService(service)
  \/ \E s \in AllIds : unregisterService(s)
  \/ \E i \in 1..MaxProbes, resp \in ProbeResponses :
       UNCHANGED responses /\ healthResumeConn(i, resp)
  \/ \E i \in 1..MaxProbes, answer \in HealthAnswers :
       UNCHANGED responses /\ healthResumeFetch(i, healthData(answer))
  \/ \E i \in 1..MaxProbes, answer \in HealthAnswers :
       UNCHANGED responses /\ healthResumeFetchListenerThrows(i, healthData(answer))

ListenerSpec == InitNoDiscovery /\ [][ListenerNext]_vars

\* ------------------------------------------- unregisterService, by statement

\* The Maps as unregisterService finds them, and no event delivered yet.
Found ==
  [services |-> services, connections |-> connections, connObj |-> connObj,
   healthStatus |-> healthStatus, seen |-> <<>>]

\* this.emit(event) while the Maps are m: the listeners run now and see, of the
\* service serviceId and the connection c, what the getters return at this point.
Deliver(m, event, serviceId, c) ==
  [m EXCEPT !.seen = Append(m.seen,
     [event |-> event,
      cataloged |-> MapHas(m.services, serviceId),
      live |-> c \in Range(m.connections),
      status |-> IF c \in DOMAIN m.connObj THEN m.connObj[c].status ELSE ""])]

\* A disconnectConnection that deletes the connection before it emits.
disconnectSteps_DeleteFirst(m, serviceId, c) ==
  LET marked == [m EXCEPT !.connObj[c].status = "disconnected"]
      deleted == [marked EXCEPT !.connections = KeyDelete(marked.connections, c)]
  IN Deliver(deleted, EvConnection("connection:lost", c), serviceId, c)

\* disconnectConnection(c) for a connection of the live set, statement by
\* statement: the status is set, connection:lost is emitted, the key is deleted.
disconnectSteps(m, serviceId, c) ==
  LET marked == [m EXCEPT !.connObj[c].status = "disconnected"]
      told == Deliver(marked, EvConnection("connection:lost", c), serviceId, c)
  IN [told EXCEPT !.connections = KeyDelete(told.connections, c)]

\* The loop of unregisterService over the connections of serviceId.
RECURSIVE closeSteps(_, _, _)
closeSteps(m, serviceId, conns) ==
  IF conns = <<>> THEN m
  ELSE closeSteps(disconnectSteps(m, serviceId, Head(conns)), serviceId, Tail(conns))

\* unregisterService(serviceId) for a cataloged service, statement by statement
\* after stopHealthCheck: the connections are closed, the entry and the health
\* record are deleted, service:unregistered is emitted.
unregisterSteps(serviceId) ==
  LET closed == closeSteps(Found, serviceId, ConnsOf(serviceId))
      gone == [closed EXCEPT !.services = MapDelete(closed.services, serviceId),
                             !.healthStatus = HealthDelete(closed.healthStatus, serviceId)]
  IN Deliver(gone, EvService("service:unregistered", serviceId), serviceId, 0)

\* ---------------------------------------------------------------- queries

\* getConnection(connectionId) # undefined.
HasConnection(c) == c \in Range(connections)

\* getHealth(serviceId) # undefined.
HasHealth(serviceId) == serviceId \in DOMAIN healthStatus

\* The events of the given kinds among those the last segment emitted.
Emitted(kinds) == SelectSeq(emitted, LAMBDA e : e.kind \in kinds)

\* getAllServices(): Array.from(this.services.values()).
getAllServices == services

\* getAllConnections(): Array.from(this.connections.values()).
getAllConnections == [i \in DOMAIN connections |-> connObj[connections[i]]]

\* A getStats that counts every connection not yet disconnected as active.
activeStatus_NotDisconnected(status) == status # "disconnected"

\* The filter of getStats for activeConnections.
activeStatus(status) == status = "connected"

\* getStats(): the sizes of the services and connections Maps, and the counts of the
\* filtered health records and connections.
getStats ==
  [totalServices |-> Cardinality(ServiceIds),
   healthyServices |->
     Cardinality({s \in DOMAIN healthStatus : healthStatus[s].status = "healthy"}),
   unhealthyServices |->
     Cardinality({s \in DOMAIN healthStatus : healthStatus[s].status = "unhealthy"}),
   totalConnections |-> Cardinality(Range(connections)),
   activeConnections |->
     Cardinality({c \in Range(connections) : activeStatus(connObj[c].status)})]

\* ------------------------------------------------------------------ claims

\* C1: if a service is unregistered while a connectToService call to it is suspended
\* in its connectivity probe, then once the probe has completed the connection is
\* discarded: it is not in the live set, it does not have status connected, and no
\* connection:established was emitted for it.
C1_ConnectDiscardedAfterUnregister ==
  \A c \in DOMAIN connObj :
    (connObj[c].serviceId \in unregistered /\ c \notin connectCalls) =>
      /\ ~HasConnection(c)
      /\ connObj[c].status # "connected"
      /\ \A e \in Range(Emitted({"connection:established"})) : e.cid # c

\* C2: a health probe's result is discarded when its service was unregistered while
\* it was in flight: an unregistered service has no health record in any later
\* state, and no service:healthy or service:unhealthy is emitted for it.
C2_HealthDiscardedAfterUnregister ==
  \A sid \in unregistered :
    /\ ~HasHealth(sid)
    /\ \A e \in Range(Emitted({"service:healthy", "service:unhealthy"})) : e.sid # sid

\* C3: when a discovery cycle fetches the same list as the cycle before it, and no
\* unregisterService (and no shutdown) happened in between, the cycle adds no entry
\* to the catalog.
C3_SecondCycleAddsNothing ==
  [][(/\ last'.op = "discoverServices:done"
      /\ lastDiscovery.valid
      /\ lastDiscovery'.list = lastDiscovery.list)
     => Len(services') = Len(services)]_vars

\* C4: from the return of shutdown() on, and for as long as no caller invokes
\* registerService or connectToService, getAllServices() and getAllConnections()
\* are empty, whatever suspended call completes meanwhile.
C4_EmptyAfterShutdown ==
  sinceShutdown = "quiet" => (services = <<>> /\ connections = <<>>)

\* C5: from the return of shutdown() on, and for as long as no caller invokes
\* registerService, there is no health timer and no discovery timer, and no step
\* starts a health probe or a discovery fetch.
C5_NoProbeAfterShutdown ==
  [][sinceShutdown' # "live" =>
       /\ healthCheckTimers' = {}
       /\ ~discoveryTimer'
       /\ sinceShutdown # "live" =>
            (Len(healthProbes') <= Len(healthProbes) /\ discoverCalls' <= discoverCalls)]_vars

\* C6: when a registerService call or a successful unregisterService call has
\* returned, every connection in the live set has a serviceId that is in the catalog.
C6_ConnectionsReferToCatalog ==
  (\/ last.op = "registerService"
   \/ (last.op = "unregisterService" /\ last.ret = "true"))
  => \A c \in Range(connections) : connObj[c].serviceId \in ServiceIds

\* C7: disconnection is final and the connecting state is left once: a disconnected
\* connection stays disconnected and out of the live set, and a connected or error
\* connection changes only to disconnected.
C7_DisconnectIsFinal ==
  [][\A c \in DOMAIN connObj :
       /\ connObj[c].status = "disconnected" =>
            (connObj'[c].status = "disconnected" /\ c \notin Range(connections'))
       /\ connObj[c].status \in {"connected", "error"} =>
            connObj'[c].status \in {connObj[c].status, "disconnected"}]_vars

\* C8: unregisterService(id) on a cataloged id returns true, and when it returns the
\* id is not in the catalog, has no health record and no probe timer; every live
\* connection of that service is out of the live set with status disconnected and
\* exactly one connection:lost; exactly one service:unregistered(id) is emitted; the
\* connections of other services are untouched.
C8_UnregisterPostcondition ==
  [][\A s \in Strings :
       (MapHas(services, s) /\ unregisterService(s)) =>
         /\ last'.ret = "true"
         /\ ~MapHas(services', s)
         /\ s \notin DOMAIN healthStatus'
         /\ s \notin healthCheckTimers'
         /\ \A c \in Range(connections) :
              IF connObj[c].serviceId = s
              THEN /\ c \notin Range(connections')
                   /\ connObj'[c].status = "disconnected"
                   /\ Len(SelectSeq(emitted', LAMBDA e :
                            e.kind = "connection:lost" /\ e.cid = c)) = 1
              ELSE /\ c \in Range(connections')
                   /\ connObj'[c] = connObj[c]
                   /\ \A e \in Range(emitted') : e.cid # c
         /\ Len(SelectSeq(emitted', LAMBDA e : e.kind = "service:unregistered")) = 1
         /\ \A e \in Range(emitted') : e.kind = "service:unregistered" => e.sid = s
         /\ \A e \in Range(emitted') :
              e.kind \in {"service:unregistered", "connection:lost"}]_vars

\* C8 happens: an unregisterService has returned true, it disconnected a connection,
\* and a connection of another service is still live.
C8_Witness ==
  /\ last.op = "unregisterService"
  /\ last.ret = "true"
  /\ Emitted({"connection:lost"}) # <<>>
  /\ \E c \in Range(connections) :
       connObj[c].serviceId \in ServiceIds /\ connObj[c].serviceId # last.arg

\* C9: unregisterService(id) on an id that is not a key of the catalog returns false,
\* emits nothing and changes neither the catalog, the connections, the health
\* records nor the timers.
C9_UnregisterUnknownIsNoOp ==
  [][\A s \in Strings :
       (~MapHas(services, s) /\ unregisterService(s)) =>
         /\ last'.ret = "false"
         /\ emitted' = <<>>
         /\ UNCHANGED <<services, connections, connObj, healthStatus,
                        healthCheckTimers, discoveryTimer, healthProbes,
                        connectCalls, discoverCalls>>]_vars

\* C9 happens: an unregisterService called with the name of a cataloged service,
\* after another service was unregistered, has returned false.
C9_Witness ==
  /\ last.op = "unregisterService"
  /\ last.ret = "false"
  /\ \E i \in DOMAIN services : services[i].name = last.arg
  /\ unregistered # {}

C11_ConnectSuccess ==
  [][\A c \in ConnIds, resp \in ProbeResponses :
       connectResume(c, resp) =>
         IF testConnection(resp) = ""
         THEN /\ connObj[c].status = "connecting"
              /\ connObj'[c].status = "connected"
              /\ connObj'[c].established
              /\ connObj'[c].latency >= 0
              /\ last'.ret = "connection"
              /\ emitted' = <<EvConnection("connection:established", c)>>
         ELSE \A e \in Range(emitted') : e.kind # "connection:established"]_vars

\* The live connections in status error.
ErrorLive == {c \in Range(connections) : connObj[c].status = "error"}

\* C12: a connectToService call whose probe fails or times out raises the error, sets
\* the connection's status to error with the error's message, and leaves the record
\* retrievable through getConnection; a connection in status error never becomes
\* connected; the live error connections are counted in totalConnections and not in
\* activeConnections.
C12_ConnectFailure ==
  /\ [](getStats.activeConnections + Cardinality(ErrorLive) <= getStats.totalConnections)
  /\ [][/\ \A c \in ConnIds, resp \in ProbeResponses :
            (testConnection(resp) # "" /\ connectResume(c, resp)) =>
              /\ last'.ret = testConnection(resp)
              /\ last'.ret \in {"Connection timeout", "fetch failed", "Service returned 500"}
              /\ connObj'[c].status = "error"
              /\ connObj'[c].error = testConnection(resp)
              /\ c \in Range(connections')
        /\ \A d \in DOMAIN connObj :
             connObj[d].status = "error" => connObj'[d].status # "connected"]_vars

\* C12 happens: a connectToService call has just raised "Service returned 500", and a
\* connection in status error is live beside a connected one.
C12_Witness ==
  /\ last.op = "connectToService:resume"
  /\ last.ret = "Service returned 500"
  /\ ErrorLive # {}
  /\ getStats.activeConnections = 1
  /\ getStats.totalConnections = 2

\* C13: disconnectConnection(id) returns false and changes nothing when id is not in
\* the live set; otherwise it sets the status to disconnected, emits connection:lost
\* exactly once, removes exactly that connection from the live set and returns true,
\* leaving every other connection, the catalog and the health records unchanged.
C13_Disconnect ==
  [][\A c \in ConnIds :
       disconnectConnection(c) =>
         IF ~HasConnection(c)
         THEN /\ last'.ret = "false"
              /\ emitted' = <<>>
              /\ UNCHANGED <<services, connections, connObj, healthStatus,
                             healthCheckTimers>>
         ELSE /\ last'.ret = "true"
              /\ connObj'[c].status = "disconnected"
              /\ emitted' = <<EvConnection("connection:lost", c)>>
              /\ connections' = SelectSeq(connections, LAMBDA d : d # c)
              /\ \A d \in DOMAIN connObj : d # c => connObj'[d] = connObj[d]
              /\ UNCHANGED <<services, healthStatus, healthCheckTimers>>]_vars

\* C13 happens: a disconnectConnection has returned true for a connection that was in
\* status error, while another connection is live and a health record is stored.
C13_Witness ==
  /\ last.op = "disconnectConnection"
  /\ last.ret = "true"
  /\ \E c \in DOMAIN connObj :
       /\ emitted = <<EvConnection("connection:lost", c)>>
       /\ connObj[c].status = "disconnected"
       /\ connObj[c].error # ""
  /\ connections # <<>>
  /\ healthStatus # NoHealth

\* C14: getService(x) returns the entry whose id equals x whenever one is cataloged,
\* even if an earlier-registered entry has name x; only when no id equals x does it
\* return an entry whose name equals x, and undefined when neither exists.
C14_IdBeforeName ==
  last.op = "getService" =>
    IF \E i \in DOMAIN services : services[i].id = last.arg
    THEN last.ret \in Range(services) /\ last.ret.id = last.arg
    ELSE IF \E i \in DOMAIN services : services[i].name = last.arg
         THEN last.ret \in Range(services) /\ last.ret.name = last.arg
         ELSE last.ret = Absent

\* C14 happens: getService(x) has returned the entry of id x, registered after an
\* entry of name x that is still cataloged.
C14_Witness ==
  /\ last.op = "getService"
  /\ last.ret.id = last.arg
  /\ \E i, j \in DOMAIN services :
       i < j /\ services[i].name = last.arg /\ services[j].id = last.arg

\* The position of an entry in the order of registration: the generated part of its id.
RegisteredAt(entry) == entry.id[Len(entry.id)]

\* C15: registrations, also of the same name, yield pairwise distinct ids, and after
\* any sequence of register and unregister calls getService(name) returns the
\* earliest-registered entry of that name that is still cataloged, provided no
\* cataloged entry has that name as its id; when one has, getService(name) returns
\* that entry.
C15_FirstRegisteredOfName ==
  /\ Cardinality(announced) = nextSuffix - 1
  /\ \A i, j \in DOMAIN services : services[i].id = services[j].id => i = j
  /\ (last.op = "getService" /\ \E i \in DOMAIN services : services[i].name = last.arg)
     => IF MapHas(services, last.arg)
        THEN last.ret \in Range(services) /\ last.ret.id = last.arg
        ELSE /\ last.ret \in Range(services)
             /\ last.ret.name = last.arg
             /\ \A e \in Range(services) :
                  e.name = last.arg => RegisteredAt(last.ret) <= RegisteredAt(e)

\* C15 as stated, for every name: getService(name) returns the earliest-registered
\* cataloged entry of that name.
C15_FirstRegisteredOfAnyName ==
  (last.op = "getService" /\ \E i \in DOMAIN services : services[i].name = last.arg)
  => /\ last.ret \in Range(services)
     /\ last.ret.name = last.arg
     /\ \A e \in Range(services) :
          e.name = last.arg => RegisteredAt(last.ret) <= RegisteredAt(e)

\* C15 happens: two services were registered under the name "a", and getService("a")
\* has returned the first of them while both are cataloged.
C15_Witness ==
  /\ last.op = "getService"
  /\ last.arg = NameA
  /\ Cardinality({e \in Range(services) : e.name = NameA}) = 2
  /\ \E e \in Range(services) :
       e.name = NameA /\ RegisteredAt(last.ret) < RegisteredAt(e)

\* C16: in every reachable state getStats().totalServices is the number of entries
\* getAllServices() returns and getStats().totalConnections the number
\* getAllConnections() returns.
C16_StatsMatchLists ==
  /\ getStats.totalServices = Len(getAllServices)
  /\ getStats.totalConnections = Len(getAllConnections)

\* C16 happens: a resumed connectToService has set its connection again, with two
\* live connections and a cataloged service.
C16_Witness ==
  /\ last.op = "connectToService:resume"
  /\ Len(getAllConnections) = 2
  /\ Len(getAllServices) >= 1

\* C17: when every dispatched probe completes, a service that is registered and
\* stays registered eventually has a health record, from the probe dispatched at
\* registration (no interval elapses in this specification); and a probe whose
\* connectivity check fails stores unhealthy with one failed connectivity check that
\* carries the error's message.
C17_FirstProbePopulatesHealth ==
  /\ \A s \in AllIds : MapHas(services, s) ~> (HasHealth(s) \/ ~MapHas(services, s))
  /\ [][\A i \in DOMAIN healthProbes, resp \in ProbeResponses :
          (testConnection(resp) # "" /\ healthResumeConn(i, resp)) =>
            /\ healthProbes[i].sid \in DOMAIN healthStatus'
            /\ healthStatus'[healthProbes[i].sid].status = "unhealthy"
            /\ healthStatus'[healthProbes[i].sid].checks =
                 <<[name |-> "connectivity", status |-> "fail",
                    message |-> testConnection(resp)]>>
            /\ testConnection(resp) \in
                 {"Connection timeout", "fetch failed", "Service returned 500"}]_vars

\* C17 happens: a cataloged service has an unhealthy record whose only check is the
\* failed connectivity check of a probe that could not reach the endpoint.
C17_Witness ==
  \E s \in ServiceIds :
    /\ HasHealth(s)
    /\ healthStatus[s].status = "unhealthy"
    /\ healthStatus[s].checks =
         <<[name |-> "connectivity", status |-> "fail", message |-> "fetch failed"]>>

\* C18: every stored health record has status healthy, degraded or unhealthy,
\* whatever status the remote /health payload carries.
C18_StoredStatusIsKnown ==
  \A s \in DOMAIN healthStatus :
    healthStatus[s].status \in {"healthy", "degraded", "unhealthy"}

\* C19: each registerService call adds exactly one entry under a fresh id, returns
\* it, emits service:registered exactly once for it and starts probing that id; it
\* changes no existing entry, connection or health record; and service:registered
\* for an id precedes every service:healthy or service:unhealthy for that id.
C19_RegisterPostcondition ==
  /\ [][\A service \in CoreServices :
          registerService(service) =>
            /\ last'.ret = "entry"
            /\ last'.arg \notin announced
            /\ ~MapHas(services, last'.arg)
            /\ Len(services') = Len(services) + 1
            /\ SubSeq(services', 1, Len(services)) = services
            /\ services'[Len(services')].id = last'.arg
            /\ services'[Len(services')].name = service.name
            /\ emitted' = <<EvService("service:registered", last'.arg)>>
            /\ healthCheckTimers' = healthCheckTimers \cup {last'.arg}
            /\ Len(healthProbes') = Len(healthProbes) + 1
            /\ healthProbes'[Len(healthProbes')].sid = last'.arg
            /\ UNCHANGED <<connections, connObj, healthStatus>>]_vars
  /\ [][/\ \A id \in ServiceIds' \ ServiceIds :
             /\ id \notin announced
             /\ Len(SelectSeq(emitted', LAMBDA e :
                      e.kind = "service:registered" /\ e.sid = id)) = 1
        /\ \A e \in Range(emitted') :
             /\ e.kind = "service:registered" => e.sid \in ServiceIds' \ ServiceIds
             /\ e.kind \in {"service:healthy", "service:unhealthy"} =>
                  e.sid \in announced]_vars

\* C19 happens: a second registerService has returned while a connection is live and
\* a health record is stored.
C19_Witness ==
  /\ last.op = "registerService"
  /\ Len(services) = 2
  /\ connections # <<>>
  /\ healthStatus # NoHealth

\* C20: registerService with a url that cannot be parsed does not raise: the entry is
\* stored and returned, service:registered is emitted, probing starts, and the
\* stored entry's protocol, host, port and path are empty whatever the caller passed.
C20_BadUrlLeavesFieldsEmpty ==
  (last.op = "registerService" /\ ~parseURL(MapGet(services, last.arg).url).ok) =>
    /\ last.ret = "entry"
    /\ MapHas(services, last.arg)
    /\ emitted = <<EvService("service:registered", last.arg)>>
    /\ last.arg \in healthCheckTimers
    /\ \E i \in DOMAIN healthProbes : healthProbes[i].sid = last.arg
    /\ MapGet(services, last.arg).protocol = ""
    /\ MapGet(services, last.arg).host = ""
    /\ MapGet(services, last.arg).port = NoPort
    /\ MapGet(services, last.arg).path = NoPath

\* C21: health-probe and discovery failures are absorbed.  A probe whose connectivity
\* check fails returns normally and only stores an unhealthy record for its service:
\* catalog, connections, timers and every other record stay as they were.  A directory
\* fetch that fails or answers non-OK returns normally, leaves catalog, connections
\* and health records unchanged, emits nothing, and leaves the discovery timer as it
\* was, so that the next tick of a running schedule fetches again.
C21_FailuresAbsorbed ==
  [][/\ \A i \in DOMAIN healthProbes, resp \in ProbeResponses :
          (testConnection(resp) # "" /\ healthResumeConn(i, resp)) =>
            /\ last'.ret = "void"
            /\ healthStatus'[healthProbes[i].sid].status = "unhealthy"
            /\ \A s \in DOMAIN healthStatus' \ {healthProbes[i].sid} :
                 s \in DOMAIN healthStatus /\ healthStatus'[s] = healthStatus[s]
            /\ DOMAIN healthStatus \subseteq DOMAIN healthStatus'
            /\ UNCHANGED <<services, connections, connObj, healthCheckTimers,
                           discoveryTimer>>
     /\ \A resp \in DiscoveryAnswers :
          (~resp.ok /\ discoverResume(resp)) =>
            /\ last'.ret = "void"
            /\ UNCHANGED <<services, connections, connObj, healthStatus,
                           healthCheckTimers, discoveryTimer>>
            /\ emitted' = <<>>
            /\ discoveryTimer' => discoverCalls' < MaxFetches]_vars

\* C21 happens: a directory fetch has just failed on a registry that has a cataloged
\* service, a connection and the unhealthy record of a failed probe, and the schedule
\* is still running with its next tick free to fetch.
C21_Witness ==
  /\ last.op = "discoverServices:failed"
  /\ discoveryTimer /\ discoverCalls < MaxFetches
  /\ connections # <<>>
  /\ \E s \in ServiceIds :
       /\ HasHealth(s)
       /\ healthStatus[s].status = "unhealthy"
       /\ healthStatus[s].checks =
            <<[name |-> "connectivity", status |-> "fail",
               message |-> "Connection timeout"]>>

\* C22: a discovery cycle whose fetch succeeded emits exactly one discovery:update,
\* as the last event of the cycle, carrying the whole fetched list; the events before
\* it are the service:registered events of the entries the cycle added, one for each,
\* whether that is all, some or none of the list.
C22_OneUpdateWithFullList ==
  [][\A resp \in DiscoveryAnswers :
       (resp.ok /\ discoverResume(resp)) =>
         /\ emitted' # <<>>
         /\ emitted'[Len(emitted')].kind = "discovery:update"
         /\ emitted'[Len(emitted')].list = resp.list
         /\ \A i \in 1..(Len(emitted') - 1) :
              /\ emitted'[i].kind = "service:registered"
              /\ emitted'[i] = EvService("service:registered", services'[Len(services) + i].id)
         /\ Len(services') = Len(services) + Len(emitted') - 1
         /\ Len(emitted') - 1 <= Len(resp.list)]_vars

\* C22 happens: a cycle has fetched a list of two records, registered one of them
\* and emitted service:registered and then discovery:update with both records.
C22_Witness ==
  /\ last.op = "discoverServices:done"
  /\ Len(lastDiscovery.list) = 2
  /\ Len(emitted) = 2
  /\ emitted[1].kind = "service:registered"
  /\ emitted[2].kind = "discovery:update"
  /\ emitted[2].list = lastDiscovery.list

\* C23: a discovery cycle, whatever the directory answers, leaves every connection
\* and every health record as it was, and the catalog it leaves starts with the
\* catalog it found, entry for entry: nothing is removed or modified, and a service
\* that the fetched list does not have stays cataloged.
C23_DiscoveryOnlyAdds ==
  [][\A resp \in DiscoveryAnswers :
       discoverResume(resp) =>
         /\ UNCHANGED <<connections, connObj, healthStatus>>
         /\ Len(services') >= Len(services)
         /\ \A i \in DOMAIN services : services'[i] = services[i]
         /\ healthCheckTimers \subseteq healthCheckTimers']_vars

\* C23 happens: a cycle that fetched a list has added an entry to a catalog that had
\* one already, on a registry with a connection and a health record.
C23_Witness ==
  /\ last.op = "discoverServices:done"
  /\ Len(services) = 2
  /\ emitted[1] = EvService("service:registered", services[2].id)
  /\ connections # <<>>
  /\ HasHealth(services[1].id)

\* C24: on a registry built with enableAutoDiscovery = false no directory fetch is in
\* flight or has been answered, no discovery timer is set, no discovery:update is
\* emitted, and every step that changes the catalog is a registerService, an
\* unregisterService or a shutdown.
C24_DisabledDiscoveryNeverRuns ==
  /\ [](~config.enableAutoDiscovery =>
          /\ discoverCalls = 0
          /\ ~discoveryTimer
          /\ ~lastDiscovery.valid
          /\ last.op \notin {"discoveryTick", "discoverServices:failed",
                             "discoverServices:done"}
          /\ Emitted({"discovery:update"}) = <<>>)
  /\ [][(~config.enableAutoDiscovery /\ services' # services) =>
          last'.op \in {"registerService", "unregisterService", "shutdown"}]_vars

\* C24 happens: a registry built with enableAutoDiscovery = false has just
\* unregistered a service and has another one cataloged.
C24_Witness ==
  /\ ~config.enableAutoDiscovery
  /\ Len(services) = 1
  /\ unregistered # {}
  /\ last.op = "unregisterService"

\* C25: stopAutoDiscovery leaves no discovery timer, and leaves catalog, connections,
\* health records, per-service timers and the probes in flight as they were; once the
\* timer is gone no step sets it again and no tick runs; stopAutoDiscovery on a
\* registry without discovery timer changes nothing of the registry.
C25_StopAutoDiscovery ==
  [][/\ stopAutoDiscovery =>
          /\ ~discoveryTimer'
          /\ UNCHANGED <<services, connections, connObj, healthStatus,
                         healthCheckTimers, healthProbes, discoverCalls>>
     /\ (stopAutoDiscovery /\ ~discoveryTimer) =>
          UNCHANGED <<config, services, connections, connObj, healthStatus,
                      healthCheckTimers, discoveryTimer, connectCalls, healthProbes,
                      discoverCalls, nextSuffix, nextConn>>
     /\ ~discoveryTimer => (~discoveryTimer' /\ last'.op # "discoveryTick")]_vars

\* C25 happens: stopAutoDiscovery has just cancelled or found cancelled the schedule
\* of a registry built with discovery on, which has a cataloged service with its probe
\* timer, a connection and a health record.
C25_Witness ==
  /\ config.enableAutoDiscovery
  /\ last.op = "stopAutoDiscovery"
  /\ ~discoveryTimer
  /\ services # <<>> /\ healthCheckTimers # {}
  /\ connections # <<>>
  /\ DOMAIN healthStatus # {}

\* C26: when the connectivity check succeeded and /health answers with a body that
\* has a status and checks, the stored record has the body's status and exactly the
\* body's checks.
C26_PayloadReplacesBasicResult ==
  [][\A i \in DOMAIN healthProbes, answer \in HealthAnswers :
       (/\ answer.kind = "json"
        /\ answer.body.status # ""
        /\ answer.body.hasChecks
        /\ healthResumeFetch(i, healthData(answer))) =>
         /\ healthStatus'[healthProbes[i].sid].status = answer.body.status
         /\ healthStatus'[healthProbes[i].sid].checks = answer.body.checks]_vars

\* The one passing connectivity check of a basic result of rt milliseconds.
ConnectivityPass(rt) ==
  [name |-> "connectivity", status |-> "pass",
   message |-> "Response time: " \o ToString(rt) \o "ms"]

C28_ConnectivityFailureIsUnhealthy ==
  [][\A i \in DOMAIN healthProbes, resp \in ProbeResponses :
       (resp.kind \in {"network", "500", "abort"} /\ healthResumeConn(i, resp)) =>
         LET sid == healthProbes[i].sid
             message == CASE resp.kind = "network" -> "fetch failed"
                          [] resp.kind = "500" -> "Service returned 500"
                          [] resp.kind = "abort" -> "Connection timeout"
         IN /\ healthStatus'[sid].status = "unhealthy"
            /\ Len(healthStatus'[sid].checks) = 1
            /\ healthStatus'[sid].checks[1].name = "connectivity"
            /\ healthStatus'[sid].checks[1].status = "fail"
            /\ healthStatus'[sid].checks[1].message = message
            /\ Len(emitted') = 1
            /\ emitted'[1].kind = "service:unhealthy"
            /\ emitted'[1].sid = sid
            /\ emitted'[1].msg = message]_vars

\* C28 happens: a probe cycle whose HEAD request was answered 500 has just stored
\* the unhealthy record and emitted service:unhealthy with "Service returned 500".
C28_Witness ==
  /\ last.op = "performHealthCheck:failed"
  /\ Len(emitted) = 1
  /\ emitted[1].kind = "service:unhealthy"
  /\ emitted[1].msg = "Service returned 500"
  /\ emitted[1].sid \in ServiceIds
  /\ HasHealth(emitted[1].sid)
  /\ healthStatus[emitted[1].sid].status = "unhealthy"

\* The kinds of the events of the last segment.
EmittedKinds == {emitted[k].kind : k \in DOMAIN emitted}

Attempts(probes) == {i \in DOMAIN probes : probes[i].stage = "conn"}

\* A probe of serviceId as performHealthCheck starts it.
NewProbe(serviceId) == [sid |-> serviceId, stage |-> "conn", health |-> NewHealth]

\* C30: registerService, which starts the probing of the new service, dispatches
\* exactly one probe and sets the service's timer; a tick of the timer of a cataloged
\* service dispatches exactly one probe; timers exist for the cataloged services
\* only.  The answer to a connectivity attempt, success or failure, ends that attempt
\* and starts no other one, and the /health answer ends the cycle without a new
\* attempt, whatever config.maxRetries is; the configuration is never changed.
C30_OneProbePerTickOneAttemptPerProbe ==
  /\ [](healthCheckTimers = ServiceIds)
  /\ [][/\ \A service \in CoreServices :
             registerService(service) =>
               /\ healthProbes' = Append(healthProbes, NewProbe(last'.arg))
               /\ healthCheckTimers' = healthCheckTimers \cup {last'.arg}
        /\ \A s \in AllIds :
             healthTick(s) => healthProbes' = Append(healthProbes, NewProbe(s))
        /\ \A i \in DOMAIN healthProbes, resp \in ProbeResponses :
             healthResumeConn(i, resp) =>
               /\ Cardinality(Attempts(healthProbes')) =
                    Cardinality(Attempts(healthProbes)) - 1
               /\ Len(healthProbes') =
                    IF testConnection(resp) = "" THEN Len(healthProbes)
                    ELSE Len(healthProbes) - 1
        /\ \A i \in DOMAIN healthProbes, answer \in HealthAnswers :
             healthResumeFetch(i, healthData(answer)) =>
               /\ Cardinality(Attempts(healthProbes')) = Cardinality(Attempts(healthProbes))
               /\ Len(healthProbes') = Len(healthProbes) - 1
        /\ last'.op \in {"unregisterService", "shutdown"} =>
             Len(healthProbes') = Len(healthProbes)
        /\ config' = config]_vars

\* C30 happens: on a registry configured with maxRetries = 1, the only probe in
\* flight has just failed its connectivity check, and no attempt is in flight for the
\* service, which is still cataloged with its timer.
C30_Witness ==
  /\ config.maxRetries = 1
  /\ config.maxRetries # DefaultMaxRetries
  /\ last.op = "performHealthCheck:failed"
  /\ healthProbes = <<>>
  /\ Len(emitted) = 1 /\ emitted[1].sid \in ServiceIds
  /\ emitted[1].sid \in healthCheckTimers

\* C31 as stated: a connectToService whose probe runs into the connectionTimeout
\* deadline raises the timeout error, one whose probe is answered with a status
\* outside 2xx raises the non-2xx error, and one whose probe is answered 2xx succeeds.
C31_EveryNon2xxIsAnError ==
  [][\A c \in ConnIds, resp \in ProbeResponses :
       connectResume(c, resp) =>
         /\ resp.kind = "abort" => last'.ret = "Connection timeout"
         /\ resp.kind \in {"405", "500"} => last'.ret = "Service returned " \o resp.kind
         /\ resp.kind = "2xx" => last'.ret = "connection"]_vars

\* C31: a connectToService whose probe runs into the connectionTimeout deadline
\* raises "Connection timeout" and records it in the connection, never the message
\* of a non-2xx answer or of a network failure; one whose probe is answered with a
\* status outside 2xx other than 405 raises "Service returned <status>"; one whose
\* probe fails in the network raises the network error; one whose probe is answered
\* 2xx or 405 returns the connected connection.
C31_TimeoutIsItsOwnErrorKind ==
  [][\A c \in ConnIds, resp \in ProbeResponses :
       connectResume(c, resp) =>
         /\ resp.kind = "abort" =>
              /\ last'.ret = "Connection timeout"
              /\ connObj'[c].status = "error"
              /\ connObj'[c].error = "Connection timeout"
              /\ last'.ret \notin {"Service returned 500", "fetch failed"}
         /\ resp.kind = "500" =>
              /\ last'.ret = "Service returned 500"
              /\ connObj'[c].status = "error"
              /\ connObj'[c].error = "Service returned 500"
         /\ resp.kind = "network" =>
              /\ last'.ret = "fetch failed"
              /\ connObj'[c].status = "error"
         /\ resp.kind \in {"2xx", "405"} =>
              /\ last'.ret = "connection"
              /\ connObj'[c].status = "connected"
              /\ connObj'[c].error = ""]_vars

\* C31 happens: a connectToService has just raised the timeout error while another
\* connection of the live set carries the error of a 500 answer.
C31_Witness ==
  /\ last.op = "connectToService:resume"
  /\ last.ret = "Connection timeout"
  /\ \E c, d \in Range(connections) :
       /\ connObj[c].error = "Connection timeout"
       /\ connObj[d].error = "Service returned 500"

\* C33: in every state the ids of the catalog entries are pairwise distinct and each
\* is the id generated for the entry, its name followed by "_" and a suffix nanoid
\* has yielded, also for an entry registered by discovery, whose directory record has
\* an id of its own; and an entry that is cataloged before and after a step is the
\* same entry, id and fields, after it.
C33_EntriesKeepTheirGeneratedIds ==
  /\ [](\A i, j \in DOMAIN services : i # j => services[i].id # services[j].id)
  /\ [](\A i \in DOMAIN services :
          \E k \in 1..(nextSuffix - 1) : services[i].id = MkId(services[i].name, k))
  /\ [][\A i \in DOMAIN services :
          services[i].id \in ServiceIds' =>
            \E j \in DOMAIN services' : services'[j] = services[i]]_vars

\* C33 happens: a discovery cycle has just registered a record whose own id is DirId
\* next to an entry of the same name, and the two entries have the generated ids.
C33_Witness ==
  /\ last.op = "discoverServices:done"
  /\ \E k \in DOMAIN lastDiscovery.list : lastDiscovery.list[k].id = DirId
  /\ Len(services) = 2
  /\ services[1].name = services[2].name
  /\ services[1].id = MkId(NameA, 1)
  /\ services[2].id = MkId(NameA, 2)
  /\ emitted[1] = EvService("service:registered", MkId(NameA, 2))

\* C34: the stored health record of a service is never replaced by the record of a
\* probe that started earlier: over every step, the lastCheckAt of a service's stored
\* record does not decrease.
C34_LastCheckAtNeverDecreases ==
  [][\A s \in (DOMAIN healthStatus) \cap (DOMAIN healthStatus') :
       healthStatus'[s].lastCheckAt >= healthStatus[s].lastCheckAt]_vars

\* C35: unregisterService of a cataloged service delivers the connection:lost events
\* of the service's connections, then service:unregistered; when a connection:lost
\* is delivered the service is cataloged and the connection is in the live set with
\* status disconnected; when service:unregistered is delivered the service is not
\* cataloged.  The statement-by-statement run ends in the state the operation ends
\* in and delivers the events it emits.
C35_UnregisterDeliveryOrder ==
  [][\A s \in Strings :
       (unregisterLookup(s) # Absent /\ unregisterService(s)) =>
         LET run == unregisterSteps(s)
             n == Len(run.seen)
         IN /\ [i \in 1..n |-> run.seen[i].event] = emitted'
            /\ run.services = services'
            /\ run.connections = connections'
            /\ run.connObj = connObj'
            /\ run.healthStatus = healthStatus'
            /\ n = Len(ConnsOf(s)) + 1
            /\ \A i \in 1..(n - 1) :
                 /\ run.seen[i].event.kind = "connection:lost"
                 /\ run.seen[i].cataloged
                 /\ run.seen[i].live
                 /\ run.seen[i].status = "disconnected"
            /\ run.seen[n].event.kind = "service:unregistered"
            /\ run.seen[n].event.sid = s
            /\ ~run.seen[n].cataloged]_vars

\* C35 happens: unregisterService has just closed the two connections of a service,
\* one of them connected, and emitted connection:lost twice and then
\* service:unregistered.
C35_Witness ==
  /\ last.op = "unregisterService"
  /\ last.ret = "true"
  /\ Len(emitted) = 3
  /\ emitted[1].kind = "connection:lost"
  /\ emitted[2].kind = "connection:lost"
  /\ emitted[3].kind = "service:unregistered"
  /\ connObj[emitted[1].cid].established
  /\ connections = <<>>

\* C36: in every state getStats() has healthyServices + unhealthyServices <=
\* totalServices and activeConnections <= totalConnections.
C36_StatsCountsAreBounded ==
  /\ getStats.healthyServices + getStats.unhealthyServices <= getStats.totalServices
  /\ getStats.activeConnections <= getStats.totalConnections

\* The checks named connectivity of a health record.
ConnectivityChecks(h) == {k \in DOMAIN h.checks : h.checks[k].name = "connectivity"}

\* C37: every stored health record has at most one check named connectivity, and a
\* record with the passing connectivity check of a successful basic step has no
\* failed connectivity check, whatever the listeners of the events do.
C37_SuccessNeverStoresFailurePath ==
  \A s \in DOMAIN healthStatus :
    /\ Cardinality(ConnectivityChecks(healthStatus[s])) <= 1
    /\ \A k, l \in ConnectivityChecks(healthStatus[s]) :
         healthStatus[s].checks[k].status = healthStatus[s].checks[l].status

\* The services a listener that follows service:registered and service:unregistered
\* holds to be cataloged.
BelievedCataloged == announced \ unregistered

\* C38: shutdown empties the catalog and the live set and emits nothing: no
\* connection:lost, no service:unregistered.  The connection objects keep their
\* status, and a listener that follows the events holds the same services to be
\* cataloged after the shutdown as before it, those of the catalog among them.
C38_ShutdownIsSilent ==
  [][shutdown =>
       /\ emitted' = <<>>
       /\ services' = <<>>
       /\ connections' = <<>>
       /\ connObj' = connObj
       /\ BelievedCataloged' = BelievedCataloged
       /\ ServiceIds \subseteq BelievedCataloged']_vars

\* C38 happens: shutdown has just cleared a catalog and a live set, a listener still
\* holds a service to be cataloged, and a connection object still says connected.
C38_Witness ==
  /\ last.op = "shutdown"
  /\ services = <<>> /\ connections = <<>>
  /\ BelievedCataloged # {}
  /\ \E c \in DOMAIN connObj :
       connObj[c].status = "connected" /\ connObj[c].serviceId \in BelievedCataloged

\* C39: in every state the services that have a health-probe timer are the cataloged
\* services.
C39_TimersAreTheCatalog ==
  healthCheckTimers = ServiceIds

\* C39 happens: of two registered services one has just been unregistered, and the
\* timer that is left is the timer of the one still cataloged.
C39_Witness ==
  /\ last.op = "unregisterService"
  /\ last.ret = "true"
  /\ Len(services) = 1
  /\ healthCheckTimers = {services[1].id}
  /\ last.arg \notin healthCheckTimers

====
